---- MODULE Spec2Model ----
(***************************************************************************)
(* The serde bridge of bson-rust (src/decoder/serde.rs): the Decoder       *)
(* (Value Cursor), SeqDecoder (Sequence Cursor), MapDecoder (Map Cursor),  *)
(* VariantDecoder (Union Cursor) and the UnitDecoder of missing_field,     *)
(* driven by an arbitrary target (a Deserialize impl and its Visitor).     *)
(*                                                                         *)
(* The code is a synchronous recursive descent whose handlers call back    *)
(* into the target.  The call stack is explicit: `stack` holds, bottom to  *)
(* top, the frames of the calls in progress.  The target acts where the    *)
(* top frame is one of its own (a Deserialize call that has not yet made   *)
(* its request, or a Visitor callback holding a cursor); each cursor       *)
(* method is one action, and a method that calls Deserialize::deserialize  *)
(* leaves a continuation frame that is resumed when the callback returns.  *)
(***************************************************************************)
EXTENDS Integers, Sequences, FiniteSets, TLC

VARIABLES decs, stack, last, status

vars == <<decs, stack, last, status>>

-----------------------------------------------------------------------------
(* Bounds *)

\* how many visit_some / visit_newtype_struct callbacks a target may nest
MaxWrap == 1

-----------------------------------------------------------------------------
(* Option<T>, Result<T, DecoderError> *)

None == <<>>
Some(x) == <<x>>

Ok(x) == [ok |-> TRUE, val |-> x]
Err(e) == [ok |-> FALSE, err |-> e]

Pop(s) == SubSeq(s, 1, Len(s) - 1)
Top(s) == s[Len(s)]

-----------------------------------------------------------------------------
(* Bson values: a record of the variant's tag and its payload v.  The f64  *)
(* of FloatingPoint is stood for by an integer; no code here computes on it. *)

Null == [tag |-> "Null", v |-> "null"]
Boolean(b) == [tag |-> "Boolean", v |-> b]
I32(n) == [tag |-> "I32", v |-> n]
I64(n) == [tag |-> "I64", v |-> n]
FloatingPoint(n) == [tag |-> "FloatingPoint", v |-> n]
String(s) == [tag |-> "String", v |-> s]
Array(a) == [tag |-> "Array", v |-> a]
Document(d) == [tag |-> "Document", v |-> d]
ObjectId(hex) == [tag |-> "ObjectId", v |-> hex]

\* Bson::to_extended_document: the Document form of an extended variant
to_extended_document(value) == Document(<< <<"$oid", String(value.v)>> >>)

-----------------------------------------------------------------------------
(* DecoderError *)

EndOfStream == [kind |-> "EndOfStream"]
Syntax(msg) == [kind |-> "Syntax", msg |-> msg]
LengthMismatch(n) == [kind |-> "LengthMismatch", n |-> n]
UnknownField(f) == [kind |-> "UnknownField", field |-> f]

ExpectedEnum == Syntax("expected an enum")
ExpectedVariantName == Syntax("expected a variant name")
ExpectedSingleKeyMap == Syntax("expected map")
ExpectedTuple == Syntax("expected a tuple")
ExpectedStruct == Syntax("expected a struct")

-----------------------------------------------------------------------------
(* The inputs *)

\* the values handed to Decoder::new
Roots ==
  { FloatingPoint(7), String("s"), Boolean(TRUE), I32(1), I64(2), Null,
    ObjectId("0a"),
    Array(<<>>),
    Array(<<I32(1), Null>>),
    Array(<<Null, I32(1)>>),
    Document(<<>>),
    Document(<< <<"a", I32(1)>>, <<"b", I32(2)>>, <<"c", I32(3)>> >>),
    Document(<< <<"V", Null>> >>),
    Document(<< <<"V", Array(<<>>)>> >>),
    Document(<< <<"V", Array(<<I64(2)>>)>> >>),
    Document(<< <<"V", Document(<< <<"a", Null>> >>)>> >>) }

\* the errors a Visitor of the target raises by itself
VisitorErrors == { UnknownField("f"), Syntax("invalid type"), EndOfStream }

\* Deserializer methods that `impl Deserializer for Decoder` and UnitDecoder
\* do not override: the trait forwards each of them to visit
Forwarded == { "visit", "visit_unit", "visit_map" }

\* the advisory variant lists passed to visit_enum
VariantLists == { <<>>, <<"V">> }

-----------------------------------------------------------------------------
(* Frames *)

RootFrame == [k |-> "Root", de |-> 1]
DeserFrame(i) == [k |-> "Deser", de |-> i]
KFrame(op, tmp) == [k |-> "K", op |-> op, tmp |-> tmp]
ScalarFrame(cb) == [k |-> "Scalar", cb |-> cb]
SomeFrame(i) == [k |-> "Some", de |-> i]
NewtypeFrame(i) == [k |-> "Newtype", de |-> i]
\* total and calls are history: the length of the Array the cursor was built
\* over and the number of SeqVisitor::visit calls made on it (counted up to
\* total + 1)
SeqDecoder(i, a) ==
  [k |-> "Seq", de |-> i, iter |-> a, len |-> Len(a), total |-> Len(a), calls |-> 0]
\* src is history: the entries of the Document the cursor was built over
MapDecoder(i, d) ==
  [k |-> "Map", de |-> i, iter |-> d, value |-> None, len |-> Len(d), src |-> d]
VariantDecoder(i, val, variant) ==
  [k |-> "Variant", de |-> i, val |-> Some(val), variant |-> Some(String(variant))]

\* the index that stands for the UnitDecoder of missing_field
UnitDe == 0

Wraps(s) == Cardinality({ i \in 1..Len(s) : s[i].k \in {"Some", "Newtype"} })

Callback(name, arg) == [name |-> name, arg |-> arg]

\* the record of a step: the method called, its argument, the callback it
\* invoked, the method whose result reaches the target (ret), the result of
\* the nested decode (in) and the result returned (res).  failed and keyed
\* are history, as sets of stack positions: the SeqDecoders and MapDecoders
\* of which a method has returned an error, and the MapDecoders whose latest
\* visit_key returned Some(key) with no visit_value requested since
Record(op, arg, cb, ret, in, res, failed, keyed) ==
  [op |-> op, arg |-> arg, cb |-> cb, ret |-> ret, in |-> in, res |-> res,
   failed |-> failed, keyed |-> keyed]

Step(op, arg, cb, ret, in, res) ==
  Record(op, arg, cb, ret, in, res, last.failed, last.keyed)

\* the history once the result r of the method ret has reached the cursor on
\* top of the stack s
Failed(s, ret, r) ==
  { j \in last.failed : j <= Len(s) } \cup
  IF Top(s).k \in {"Seq", "Map"} /\ ret # "deserialize" /\ ~r.ok THEN {Len(s)} ELSE {}

Keyed(s, ret, r) ==
  { j \in last.keyed : j <= Len(s) } \cup
  IF ret = "Map.visit_key" /\ r = Ok("Some") THEN {Len(s)} ELSE {}

-----------------------------------------------------------------------------

Init ==
  /\ \E value \in Roots : decs = << Some(value) >>
  /\ stack = << RootFrame >>
  /\ last = Record("new", <<>>, None, "none", None, None, {}, {})
  /\ status = "running"

-----------------------------------------------------------------------------
(* Returning a result to the caller *)

\* SeqDecoder::visit, line 351: Ok(Some(try!(Deserialize::deserialize(self.de))))
SeqDecoder_visit_result(r) == IF r.ok THEN Ok("Some") ELSE r

\* MapDecoder_visit_key_result with every key-decode error taken for the end
MapDecoder_visit_key_result_AnyError(r) ==
  IF r.ok THEN Ok("Some") ELSE Ok("None")

\* MapDecoder::visit_key, lines 388-392: the match on the key's decode result
MapDecoder_visit_key_result(r) ==
  IF r.ok THEN Ok("Some")
  ELSE IF r.err.kind = "UnknownField" THEN Ok("None")
  ELSE r

\* MapDecoder::visit_value and MapDecoder::missing_field: Ok(try!(...));
\* the VariantDecoder methods return the nested result as it is
Propagate(r) == r

\* what the method `op`, suspended in Deserialize::deserialize, returns once
\* the nested decode has returned r
Resume(op, r) ==
  CASE op = "Seq.visit" -> SeqDecoder_visit_result(r)
    [] op = "Map.visit_key" -> MapDecoder_visit_key_result(r)
    [] OTHER -> Propagate(r)

\* r is returned to the frame on top of s: a Deserialize call passes it on,
\* a suspended cursor method resumes (dropping its temporary Decoder), and
\* the result reaches the Visitor (or the root caller) below
Deliver(s, d, op, arg, r) ==
  LET s1 == IF Top(s).k = "Deser" THEN Pop(s) ELSE s
      isK == Top(s1).k = "K"
      s2 == IF isK THEN Pop(s1) ELSE s1
      r2 == IF isK THEN Resume(Top(s1).op, r) ELSE r
      d2 == IF isK /\ Top(s1).tmp THEN Pop(d) ELSE d
  IN /\ stack' = s2
     /\ decs' = d2
     /\ LET ret == IF isK THEN Top(s1).op ELSE "deserialize" IN
          last' = Record(op, arg, None, ret, Some(r), Some(r2),
                         Failed(s2, ret, r2), Keyed(s2, ret, r2))

\* the method `op` of the cursor on top of the stack returns r at once
Answer(op, r) ==
  last' = Record(op, <<>>, None, op, None, Some(r),
                 Failed(stack, op, r), last.keyed)

\* the code invokes the callback cb of the target's Visitor, which runs in frame f
Invoke(s, d, op, arg, cb, f) ==
  /\ stack' = Append(s, f)
  /\ decs' = d
  /\ last' = Step(op, arg, Some(cb), "none", None, None)

\* Option::unwrap on None
Panic(op) ==
  /\ status' = "panic"
  /\ last' = Step(op, <<>>, None, "none", None, None)
  /\ UNCHANGED <<decs, stack>>

Running(kinds) == status = "running" /\ Top(stack).k \in kinds

-----------------------------------------------------------------------------
(* The target *)

\* the holder of a &mut Decoder (the root caller, a visit_some or a
\* visit_newtype_struct callback) calls Deserialize::deserialize on it
Deserialize ==
  /\ Running({"Root", "Some", "Newtype"})
  /\ stack' = Append(stack, DeserFrame(Top(stack).de))
  /\ last' = Step("deserialize", <<>>, None, "none", None, None)
  /\ UNCHANGED <<decs, status>>

\* the Visitor callback on top of the stack returns
VisitorReturn(r) ==
  /\ Running({"Scalar", "Some", "Newtype", "Seq", "Map", "Variant"})
  /\ Deliver(Pop(stack), decs, "return", <<>>, r)
  /\ UNCHANGED status

-----------------------------------------------------------------------------
(* impl Deserializer for Decoder *)

\* VisitCallback with the Int64 arm routed to the Int32 callback
VisitCallback_I64AsI32(value) ==
  CASE value.tag = "FloatingPoint" -> Callback("visit_f64", Some(value))
    [] value.tag = "String" -> Callback("visit_string", Some(value))
    [] value.tag = "Array" -> Callback("visit_seq", None)
    [] value.tag = "Document" -> Callback("visit_map", None)
    [] value.tag = "Boolean" -> Callback("visit_bool", Some(value))
    [] value.tag = "Null" -> Callback("visit_unit", None)
    [] value.tag = "I32" -> Callback("visit_i32", Some(value))
    [] value.tag = "I64" -> Callback("visit_i32", Some(value))
    [] OTHER -> Callback("visit_map", None)

\* Decoder::visit, lines 161-195: the callback each variant is routed to
VisitCallback(value) ==
  CASE value.tag = "FloatingPoint" -> Callback("visit_f64", Some(value))
    [] value.tag = "String" -> Callback("visit_string", Some(value))
    [] value.tag = "Array" -> Callback("visit_seq", None)
    [] value.tag = "Document" -> Callback("visit_map", None)
    [] value.tag = "Boolean" -> Callback("visit_bool", Some(value))
    [] value.tag = "Null" -> Callback("visit_unit", None)
    [] value.tag = "I32" -> Callback("visit_i32", Some(value))
    [] value.tag = "I64" -> Callback("visit_i64", Some(value))
    [] OTHER -> Callback("visit_map", None)

\* Decoder::visit, lines 161-195: the cursor each variant is handed over in
VisitFrame(i, value) ==
  CASE value.tag = "Array" -> SeqDecoder(i, value.v)
    [] value.tag = "Document" -> MapDecoder(i, value.v)
    [] value.tag \in {"FloatingPoint", "String", "Boolean", "Null", "I32", "I64"} ->
         ScalarFrame(VisitCallback(value).name)
    [] OTHER -> MapDecoder(i, to_extended_document(value).v)

Decoder_visit(m) ==
  /\ Running({"Deser"})
  /\ Top(stack).de # UnitDe
  /\ LET i == Top(stack).de IN
       IF decs[i] = None
       THEN Deliver(stack, decs, "Decoder.visit", <<m>>, Err(EndOfStream))
       ELSE LET value == decs[i][1] IN
              Invoke(stack, [decs EXCEPT ![i] = None], "Decoder.visit", <<m>>,
                     VisitCallback(value), VisitFrame(i, value))
  /\ UNCHANGED status

\* Decoder_visit_option with the none/some check made on self.value.take()
Decoder_visit_option_Take ==
  /\ Running({"Deser"})
  /\ Top(stack).de # UnitDe
  /\ LET i == Top(stack).de
         taken == [decs EXCEPT ![i] = None]
     IN IF decs[i] = None
        THEN Deliver(stack, decs, "Decoder.visit_option", <<>>, Err(EndOfStream))
        ELSE IF decs[i] = Some(Null)
        THEN Invoke(stack, taken, "Decoder.visit_option", <<>>,
                    Callback("visit_none", None), ScalarFrame("visit_none"))
        ELSE /\ Wraps(stack) < MaxWrap
             /\ Invoke(stack, taken, "Decoder.visit_option", <<>>,
                       Callback("visit_some", None), SomeFrame(i))
  /\ UNCHANGED status

Decoder_visit_option ==
  /\ Running({"Deser"})
  /\ Top(stack).de # UnitDe
  /\ LET i == Top(stack).de IN
       IF decs[i] = None
       THEN Deliver(stack, decs, "Decoder.visit_option", <<>>, Err(EndOfStream))
       ELSE IF decs[i] = Some(Null)
       THEN Invoke(stack, decs, "Decoder.visit_option", <<>>,
                   Callback("visit_none", None), ScalarFrame("visit_none"))
       ELSE /\ Wraps(stack) < MaxWrap
            /\ Invoke(stack, decs, "Decoder.visit_option", <<>>,
                      Callback("visit_some", None), SomeFrame(i))
  /\ UNCHANGED status

\* EnumCheck with the empty and the over-long Document reported alike
EnumCheck_OneMessage(value) ==
  IF value.tag # "Document" THEN Err(ExpectedEnum)
  ELSE IF Len(value.v) # 1 THEN Err(ExpectedSingleKeyMap)
  ELSE Ok("variant")

\* Decoder::visit_enum, lines 216-231: the checks made before the EnumVisitor runs
EnumCheck(value) ==
  IF value.tag # "Document" THEN Err(ExpectedEnum)
  ELSE IF Len(value.v) = 0 THEN Err(ExpectedVariantName)
  ELSE IF Len(value.v) > 1 THEN Err(ExpectedSingleKeyMap)
  ELSE Ok("variant")

\* Decoder_visit_enum that takes an empty slot for a value that is not an enum
Decoder_visit_enum_EmptyAsOther(variants) ==
  /\ Running({"Deser"})
  /\ Top(stack).de # UnitDe
  /\ LET i == Top(stack).de
         taken == [decs EXCEPT ![i] = None]
     IN IF decs[i] = None
        THEN Deliver(stack, decs, "Decoder.visit_enum", variants, Err(ExpectedEnum))
        ELSE IF EnumCheck(decs[i][1]).ok
        THEN Invoke(stack, taken, "Decoder.visit_enum", variants,
                    Callback("visit", None),
                    VariantDecoder(i, decs[i][1].v[1][2], decs[i][1].v[1][1]))
        ELSE Deliver(stack, taken, "Decoder.visit_enum", variants,
                     EnumCheck(decs[i][1]))
  /\ UNCHANGED status

Decoder_visit_enum(variants) ==
  /\ Running({"Deser"})
  /\ Top(stack).de # UnitDe
  /\ LET i == Top(stack).de IN
       IF decs[i] = None
       THEN Deliver(stack, decs, "Decoder.visit_enum", variants, Err(EndOfStream))
       ELSE LET value == decs[i][1]
                taken == [decs EXCEPT ![i] = None]
            IN IF EnumCheck(value).ok
               THEN Invoke(stack, taken, "Decoder.visit_enum", variants,
                           Callback("visit", None),
                           VariantDecoder(i, value.v[1][2], value.v[1][1]))
               ELSE Deliver(stack, taken, "Decoder.visit_enum", variants,
                            EnumCheck(value))
  /\ UNCHANGED status

Decoder_visit_newtype_struct ==
  /\ Running({"Deser"})
  /\ Top(stack).de # UnitDe
  /\ Wraps(stack) < MaxWrap
  /\ Invoke(stack, decs, "Decoder.visit_newtype_struct", <<>>,
            Callback("visit_newtype_struct", None), NewtypeFrame(Top(stack).de))
  /\ UNCHANGED status

-----------------------------------------------------------------------------
(* A cursor method called by the Visitor that holds the cursor *)

\* the cursor c on top of the stack becomes c2 and its method `op` calls
\* Deserialize::deserialize on the Decoder (or UnitDecoder) of index i
Suspend(op, c2, tmp, i, d) ==
  /\ stack' = Pop(stack) \o << c2, KFrame(op, tmp), DeserFrame(i) >>
  /\ decs' = d
  /\ last' = Record(op, <<>>, None, "none", None, None, last.failed,
                    IF op \in {"Map.visit_key", "Map.visit_value"}
                    THEN last.keyed \ {Len(stack)} ELSE last.keyed)

-----------------------------------------------------------------------------
(* impl SeqVisitor for SeqDecoder, impl Deserializer for SeqDecoder *)

\* SeqDecoder_pop that leaves len as it was
SeqDecoder_pop_KeepLen(c) == [c EXCEPT !.iter = Tail(c.iter)]

\* SeqDecoder_pop that does not advance the iterator
SeqDecoder_pop_Peek(c) == c

\* SeqDecoder::visit, lines 347-349: self.iter.next() yields Some(value) and
\* self.len -= 1
SeqDecoder_pop(c) == [c EXCEPT !.iter = Tail(c.iter), !.len = c.len - 1]

SeqDecoder_visit ==
  /\ Running({"Seq"})
  /\ LET c == Top(stack)
         called == IF c.calls <= c.total THEN c.calls + 1 ELSE c.calls
     IN IF c.iter # <<>>
        THEN Suspend("Seq.visit",
                     [SeqDecoder_pop(c) EXCEPT !.calls = called],
                     FALSE, c.de, [decs EXCEPT ![c.de] = Some(Head(c.iter))])
        ELSE /\ Answer("Seq.visit", Ok("None"))
             /\ stack' = Pop(stack) \o << [c EXCEPT !.calls = called] >>
             /\ decs' = decs
  /\ UNCHANGED status

\* SeqDecoder_end_result without the length check, as MapDecoder::end
SeqDecoder_end_result_NoCheck(len) == Ok("unit")

\* SeqDecoder::end, lines 357-363
SeqDecoder_end_result(len) ==
  IF len = 0 THEN Ok("unit") ELSE Err(LengthMismatch(len))

SeqDecoder_end ==
  /\ Running({"Seq"})
  /\ Answer("Seq.end", SeqDecoder_end_result(Top(stack).len))
  /\ UNCHANGED <<decs, stack, status>>

\* size_hint of both cursors: (self.len, Some(self.len))
size_hint_result(len) == [ok |-> TRUE, hint |-> <<len, Some(len)>>]

SeqDecoder_size_hint ==
  /\ Running({"Seq"})
  /\ Answer("Seq.size_hint", size_hint_result(Top(stack).len))
  /\ UNCHANGED <<decs, stack, status>>

\* SeqDecoder_Deserializer_visit without the unit case of the empty Array
SeqDecoder_Deserializer_visit_AlwaysSeq(c) ==
  [cb |-> Callback("visit_seq", None), frame |-> c]

\* <SeqDecoder as Deserializer>::visit, lines 330-338
SeqDecoder_Deserializer_visit(c) ==
  IF c.len = 0
  THEN [cb |-> Callback("visit_unit", None), frame |-> ScalarFrame("visit_unit")]
  ELSE [cb |-> Callback("visit_seq", None), frame |-> c]

-----------------------------------------------------------------------------
(* impl MapVisitor for MapDecoder, impl Deserializer for MapDecoder *)

\* MapDecoder_next yielding the entry at the back of the iterator
MapDecoder_next_Back(iter) == iter[Len(iter)]

\* OrderedDocumentIntoIterator::next at line 383: the (key, value) at the front
MapDecoder_next(iter) == Head(iter)

MapDecoder_visit_key ==
  /\ Running({"Map"})
  /\ LET c == Top(stack) IN
       IF c.iter # <<>>
       THEN LET entry == MapDecoder_next(c.iter) IN
            Suspend("Map.visit_key",
                    [c EXCEPT !.iter = Tail(c.iter), !.len = c.len - 1,
                              !.value = Some(entry[2])],
                    FALSE, c.de,
                    [decs EXCEPT ![c.de] = Some(String(entry[1]))])
       ELSE /\ Answer("Map.visit_key", Ok("None"))
            /\ UNCHANGED <<decs, stack>>
  /\ UNCHANGED status

MapDecoder_visit_value ==
  /\ Running({"Map"})
  /\ LET c == Top(stack) IN
       IF c.value = None
       THEN Panic("Map.visit_value")
       ELSE /\ Suspend("Map.visit_value", [c EXCEPT !.value = None], FALSE, c.de,
                       [decs EXCEPT ![c.de] = c.value])
            /\ UNCHANGED status

MapDecoder_end ==
  /\ Running({"Map"})
  /\ Answer("Map.end", Ok("unit"))
  /\ UNCHANGED <<decs, stack, status>>

MapDecoder_missing_field ==
  /\ Running({"Map"})
  /\ Suspend("Map.missing_field", Top(stack), FALSE, UnitDe, decs)
  /\ UNCHANGED status

MapDecoder_size_hint ==
  /\ Running({"Map"})
  /\ Answer("Map.size_hint", size_hint_result(Top(stack).len))
  /\ UNCHANGED <<decs, stack, status>>

\* <MapDecoder as Deserializer>::visit, lines 444-448
MapDecoder_Deserializer_visit(c) ==
  [cb |-> Callback("visit_map", None), frame |-> c]

-----------------------------------------------------------------------------
(* UnitDecoder, the Deserializer that missing_field decodes from *)

\* UnitDecoder_visit_callback answering "none" to what is not a unit request
UnitDecoder_visit_callback_NoneElse(m) ==
  IF m = "visit_unit" THEN "visit_unit" ELSE "visit_none"

\* UnitDecoder::visit, lines 419-423
UnitDecoder_visit_callback(m) == "visit_unit"

\* UnitDecoder::visit_option, lines 425-429
UnitDecoder_visit_option_callback == "visit_none"

UnitDecoder_visit(m) ==
  /\ Running({"Deser"})
  /\ Top(stack).de = UnitDe
  /\ Invoke(stack, decs, "Unit.visit", <<m>>,
            Callback(UnitDecoder_visit_callback(m), None),
            ScalarFrame(UnitDecoder_visit_callback(m)))
  /\ UNCHANGED status

UnitDecoder_visit_option ==
  /\ Running({"Deser"})
  /\ Top(stack).de = UnitDe
  /\ Invoke(stack, decs, "Unit.visit_option", <<>>,
            Callback(UnitDecoder_visit_option_callback, None),
            ScalarFrame(UnitDecoder_visit_option_callback))
  /\ UNCHANGED status

-----------------------------------------------------------------------------
(* impl VariantVisitor for VariantDecoder *)

\* Deserialize::deserialize(&mut Decoder::new(slot.take().unwrap()))
FromNewDecoder(op, c, slot, c2) ==
  IF slot = None
  THEN Panic(op)
  ELSE /\ Suspend(op, c2, TRUE, Len(decs) + 1, Append(decs, slot))
       /\ UNCHANGED status

VariantDecoder_visit_variant ==
  /\ Running({"Variant"})
  /\ LET c == Top(stack) IN
       FromNewDecoder("Variant.visit_variant", c, c.variant, [c EXCEPT !.variant = None])

VariantDecoder_visit_unit ==
  /\ Running({"Variant"})
  /\ LET c == Top(stack) IN
       FromNewDecoder("Variant.visit_unit", c, c.val, [c EXCEPT !.val = None])

VariantDecoder_visit_newtype ==
  /\ Running({"Variant"})
  /\ LET c == Top(stack) IN
       FromNewDecoder("Variant.visit_newtype", c, c.val, [c EXCEPT !.val = None])

\* visit_tuple_dispatch that also takes a Document payload for a tuple
visit_tuple_dispatch_AnyContainer(de, val) ==
  IF val.tag = "Array"
  THEN [ok |-> TRUE, to |-> SeqDecoder_Deserializer_visit(SeqDecoder(de, val.v))]
  ELSE IF val.tag = "Document"
  THEN [ok |-> TRUE, to |-> MapDecoder_Deserializer_visit(MapDecoder(de, val.v))]
  ELSE Err(ExpectedTuple)

\* VariantDecoder::visit_tuple, lines 285-296: the dispatch on the payload
visit_tuple_dispatch(de, val) ==
  IF val.tag = "Array"
  THEN [ok |-> TRUE, to |-> SeqDecoder_Deserializer_visit(SeqDecoder(de, val.v))]
  ELSE Err(ExpectedTuple)

\* VariantDecoder::visit_struct, lines 304-316: the dispatch on the payload
visit_struct_dispatch(de, val) ==
  IF val.tag = "Document"
  THEN [ok |-> TRUE, to |-> MapDecoder_Deserializer_visit(MapDecoder(de, val.v))]
  ELSE Err(ExpectedStruct)

\* self.val.take().unwrap(), then the dispatch d of the payload
PayloadDispatch(op, d) ==
  LET c == Top(stack)
      c2 == [c EXCEPT !.val = None]
  IN IF c.val = None
     THEN Panic(op)
     ELSE /\ IF d.ok
             THEN Invoke(Pop(stack) \o << c2, KFrame(op, FALSE) >>, decs, op, <<>>,
                         d.to.cb, d.to.frame)
             ELSE /\ stack' = Pop(stack) \o << c2 >>
                  /\ decs' = decs
                  /\ Answer(op, d)
          /\ UNCHANGED status

VariantDecoder_visit_tuple ==
  /\ Running({"Variant"})
  /\ PayloadDispatch("Variant.visit_tuple",
       IF Top(stack).val = None THEN Err(ExpectedTuple)
       ELSE visit_tuple_dispatch(Top(stack).de, Top(stack).val[1]))

VariantDecoder_visit_struct ==
  /\ Running({"Variant"})
  /\ PayloadDispatch("Variant.visit_struct",
       IF Top(stack).val = None THEN Err(ExpectedStruct)
       ELSE visit_struct_dispatch(Top(stack).de, Top(stack).val[1]))

-----------------------------------------------------------------------------

Next ==
  \/ Deserialize
  \/ \E r \in {Ok("value")} \cup {Err(e) : e \in VisitorErrors} : VisitorReturn(r)
  \/ \E m \in Forwarded : Decoder_visit(m)
  \/ Decoder_visit_option
  \/ \E variants \in VariantLists : Decoder_visit_enum(variants)
  \/ Decoder_visit_newtype_struct
  \/ SeqDecoder_visit
  \/ SeqDecoder_end
  \/ SeqDecoder_size_hint
  \/ MapDecoder_visit_key
  \/ MapDecoder_visit_value
  \/ MapDecoder_end
  \/ MapDecoder_missing_field
  \/ MapDecoder_size_hint
  \/ \E m \in Forwarded : UnitDecoder_visit(m)
  \/ UnitDecoder_visit_option
  \/ VariantDecoder_visit_variant
  \/ VariantDecoder_visit_unit
  \/ VariantDecoder_visit_newtype
  \/ VariantDecoder_visit_tuple
  \/ VariantDecoder_visit_struct

Spec == Init /\ [][Next]_vars

-----------------------------------------------------------------------------
(* A target written the way serde's own visitors are: it makes one request  *)
(* per Deserialize call, asks a cursor for elements or entries until None   *)
(* or an error is reported (or stops early), asks for the value of each key *)
(* it got, names the variant before it asks for the payload, and returns    *)
(* the errors it meets.  What the target last saw is in `last`.             *)

JustInvoked == last.cb # None
Got(ret, r) == last.ret = ret /\ last.res = Some(r)
GotError == last.res # None /\ ~last.res[1].ok
On(kinds) == status = "running" /\ Top(stack).k \in kinds

LoopRoot == last.op = "new" /\ Deserialize

LoopWrapped == On({"Some", "Newtype"}) /\ JustInvoked /\ Deserialize

LoopUnwrap == On({"Some", "Newtype"}) /\ last.res # None /\ VisitorReturn(last.res[1])

LoopScalar ==
  /\ On({"Scalar"})
  /\ \E r \in {Ok("value")} \cup {Err(e) : e \in VisitorErrors} : VisitorReturn(r)

LoopRequest ==
  /\ On({"Deser"})
  /\ \/ \E m \in Forwarded : Decoder_visit(m)
     \/ Decoder_visit_option
     \/ \E variants \in VariantLists : Decoder_visit_enum(variants)
     \/ Decoder_visit_newtype_struct
     \/ \E m \in Forwarded : UnitDecoder_visit(m)
     \/ UnitDecoder_visit_option

LoopElement ==
  /\ On({"Seq"})
  /\ JustInvoked \/ Got("Seq.visit", Ok("Some"))
  /\ SeqDecoder_visit

LoopSeqEnd ==
  /\ On({"Seq"})
  /\ JustInvoked \/ last.ret = "Seq.visit"
  /\ ~GotError
  /\ SeqDecoder_end

LoopKey ==
  /\ On({"Map"})
  /\ JustInvoked \/ (last.ret = "Map.visit_value" /\ ~GotError)
  /\ MapDecoder_visit_key

LoopValue ==
  /\ On({"Map"})
  /\ Got("Map.visit_key", Ok("Some"))
  /\ MapDecoder_visit_value

LoopMissing ==
  /\ On({"Map"})
  /\ Got("Map.visit_key", Ok("None"))
  /\ MapDecoder_missing_field

LoopMapEnd ==
  /\ On({"Map"})
  /\ Got("Map.visit_key", Ok("None")) \/ (last.ret = "Map.missing_field" /\ ~GotError)
  /\ MapDecoder_end

LoopVariant ==
  /\ On({"Variant"})
  /\ JustInvoked
  /\ VariantDecoder_visit_variant

LoopPayload ==
  /\ On({"Variant"})
  /\ last.ret = "Variant.visit_variant"
  /\ ~GotError
  /\ \/ VariantDecoder_visit_unit
     \/ VariantDecoder_visit_newtype
     \/ VariantDecoder_visit_tuple
     \/ VariantDecoder_visit_struct

\* the callback holding a cursor returns: the error it met, or its value
\* once end() has succeeded or the payload has been decoded
LoopReturn ==
  /\ On({"Seq", "Map", "Variant"})
  /\ last.res # None
  /\ IF GotError
     THEN VisitorReturn(last.res[1])
     ELSE /\ last.ret \in {"Seq.end", "Map.end", "Variant.visit_unit",
                           "Variant.visit_newtype", "Variant.visit_tuple",
                           "Variant.visit_struct"}
          /\ VisitorReturn(Ok("value"))

LoopNext ==
  \/ LoopRoot
  \/ LoopWrapped
  \/ LoopUnwrap
  \/ LoopScalar
  \/ LoopRequest
  \/ LoopElement
  \/ LoopSeqEnd
  \/ LoopKey
  \/ LoopValue
  \/ LoopMissing
  \/ LoopMapEnd
  \/ LoopVariant
  \/ LoopPayload
  \/ LoopReturn

\* the code is synchronous: a call in progress keeps running
LoopSpec == Init /\ [][LoopNext]_vars /\ WF_vars(LoopNext)

-----------------------------------------------------------------------------
(* Deserialize for Bson, OrderedDocument and ObjectId.  Their Visitor is     *)
(* BsonVisitor, so the whole decode of a pending value is determined by the *)
(* value: it is computed here as a function and applied in one step.        *)

MaxLen == 2

\* the values put inside the Arrays and Documents below, and their keys
Elements == { Null, I32(1), String("s") }
Keys == { "a", "b" }

RECURSIVE SeqsUpTo(_, _)
SeqsUpTo(S, n) ==
  IF n = 0 THEN { <<>> }
  ELSE LET shorter == SeqsUpTo(S, n - 1) IN
         shorter \cup { Append(s, x) : s \in { t \in shorter : Len(t) = n - 1 }, x \in S }

\* an OrderedDocument holds one entry per key
NoRepeat(d) == \A i, j \in 1..Len(d) : d[i][1] = d[j][1] => i = j

\* the values handed to Decoder::new
Values ==
  Roots \cup { Boolean(FALSE) }
        \cup { Array(a) : a \in SeqsUpTo(Elements, MaxLen) }
        \cup { Document(d) : d \in { e \in SeqsUpTo(Keys \X Elements, MaxLen) : NoRepeat(e) } }
        \cup { Array(<< Document(<< <<"b", I32(1)>>, <<"a", Null>> >>) >>),
               Array(<< Array(<< String("s"), I32(1) >>), Null >>),
               Document(<< <<"a", Array(<< I32(1), Null >>)>> >>),
               Document(<< <<"b", Document(<< <<"a", I32(1)>>, <<"b", Null>> >>)>> >>) }

\* Ord for String on the keys in use: byte order
KeyOrder == << "$oid", "V", "a", "b", "c" >>

\* BTreeMap::insert of the entries in turn, then the map's iteration: one
\* entry per key, holding the value inserted last, in ascending key order
BTreeMap_collect(entries) ==
  LET at(k) == CHOOSE j \in 1..Len(entries) :
                 /\ entries[j][1] = k
                 /\ \A h \in (j + 1)..Len(entries) : entries[h][1] # k
      held(k) == \E j \in 1..Len(entries) : entries[j][1] = k
      keys == SelectSeq(KeyOrder, held)
  IN [i \in 1..Len(keys) |-> << keys[i], entries[at(keys[i])][2] >>]

\* Bson::from_extended_document: the extended variant a Document stands for,
\* or the Document itself
from_extended_document(doc) ==
  IF Len(doc) = 1 /\ doc[1][1] = "$oid" /\ doc[1][2].tag = "String"
  THEN ObjectId(doc[1][2].v)
  ELSE Document(doc)

\* try! over the decodes of the elements: the first error, if any
Failure(rs) ==
  IF \E i \in 1..Len(rs) : ~rs[i].ok
  THEN Some(rs[CHOOSE i \in 1..Len(rs) : ~rs[i].ok /\ \A h \in 1..(i - 1) : rs[h].ok])
  ELSE None

\* the scalar callbacks of BsonVisitor
BsonVisitor_scalar(cb) ==
  CASE cb.name = "visit_bool" -> Boolean(cb.arg[1].v)
    [] cb.name = "visit_i32" -> I32(cb.arg[1].v)
    [] cb.name = "visit_i64" -> I64(cb.arg[1].v)
    [] cb.name = "visit_f64" -> FloatingPoint(cb.arg[1].v)
    [] cb.name = "visit_string" -> String(cb.arg[1].v)
    [] cb.name = "visit_unit" -> Null

\* BsonVisitor::visit_seq: VecVisitor asks the SeqDecoder for elements until
\* None, pushing each of them; rs are the results of the elements' decodes
BsonVisitor_visit_seq(rs) ==
  IF Failure(rs) # None THEN Failure(rs)[1]
  ELSE Ok(Array([i \in 1..Len(rs) |-> rs[i].val]))

\* BsonVisitor::visit_map: BTreeMapVisitor asks the MapDecoder for entries
\* until None, inserting each of them into a BTreeMap; the keys decode as
\* String and rs are the results of the values' decodes
BsonVisitor_visit_map(doc, rs) ==
  IF Failure(rs) # None THEN Failure(rs)[1]
  ELSE Ok(from_extended_document(
            BTreeMap_collect([i \in 1..Len(doc) |-> << doc[i][1], rs[i].val >>])))

\* deserializer.visit(BsonVisitor) on a Decoder whose slot is `slot`
RECURSIVE Decoder_visit_BsonVisitor(_)
Decoder_visit_BsonVisitor(slot) ==
  IF slot = None THEN Err(EndOfStream)
  ELSE LET value == slot[1]
           cb == VisitCallback(value)
           doc == IF value.tag = "Document" THEN value.v
                  ELSE to_extended_document(value).v
       IN CASE cb.name = "visit_seq" ->
                 BsonVisitor_visit_seq(
                   [i \in 1..Len(value.v) |-> Decoder_visit_BsonVisitor(Some(value.v[i]))])
            [] cb.name = "visit_map" ->
                 BsonVisitor_visit_map(doc,
                   [i \in 1..Len(doc) |-> Decoder_visit_BsonVisitor(Some(doc[i][2]))])
            [] OTHER -> Ok(BsonVisitor_scalar(cb))

\* the root caller's Deserialize call returns r, or aborts
Reconstruct(op, r, abort) ==
  /\ status = "running"
  /\ stack = << RootFrame >>
  /\ decs' = << None >>
  /\ stack' = stack
  /\ IF abort
     THEN /\ status' = "panic"
          /\ last' = Record(op, decs[1], None, "none", None, None, {}, {})
     ELSE /\ status' = status
          /\ last' = Record(op, decs[1], None, "deserialize", None, Some(r), {}, {})

Deserialize_Bson ==
  Reconstruct("Bson.deserialize", Decoder_visit_BsonVisitor(decs[1]), FALSE)

\* the visit_map request is forwarded to Decoder::visit; unimplemented!()
\* aborts when the Bson that comes back is another variant
Deserialize_ObjectId ==
  LET r == Decoder_visit_BsonVisitor(decs[1]) IN
    Reconstruct("ObjectId.deserialize",
                IF r.ok THEN Ok(r.val.v) ELSE r,
                r.ok /\ r.val.tag # "ObjectId")

Deserialize_OrderedDocument ==
  LET r == Decoder_visit_BsonVisitor(decs[1]) IN
    Reconstruct("OrderedDocument.deserialize",
                IF r.ok THEN Ok(r.val.v) ELSE r,
                r.ok /\ r.val.tag # "Document")

BsonInit ==
  /\ \E value \in Values : decs = << Some(value) >>
  /\ stack = << RootFrame >>
  /\ last = Record("new", <<>>, None, "none", None, None, {}, {})
  /\ status = "running"

BsonNext ==
  \/ Deserialize_Bson
  \/ Deserialize_ObjectId
  \/ Deserialize_OrderedDocument

BsonSpec == BsonInit /\ [][BsonNext]_vars

TypeOK ==
  /\ status \in {"running", "panic"}
  /\ Len(stack) >= 1
  /\ stack[1] = RootFrame
  /\ Len(decs) >= 1

-----------------------------------------------------------------------------
(* Properties *)

\* the Decoder a pending Deserialize call is about to make its request on
AtDecoder == status = "running" /\ Top(stack).k = "Deser" /\ Top(stack).de # UnitDe

\* the pending slot of that Decoder
Pending == decs[Top(stack).de]

\* the step is a call of the Decoder method op on a non-empty pending slot
DecoderStep(op) == AtDecoder /\ Pending # None /\ last'.op = op

\* C1: a plain reconstruct request (visit, or any request the trait forwards
\* to it) on a Decoder with a pending value is routed by the value's tag
\* alone: FloatingPoint to visit_f64, String to visit_string, Boolean, I32 and
\* I64 to visit_bool, visit_i32 and visit_i64 with the same payload, Null to
\* visit_unit, Array to visit_seq over a SeqDecoder whose len is the array's
\* length, Document to visit_map over a MapDecoder whose len is the number of
\* entries, and every other variant to visit_map over the MapDecoder of its
\* extended document.
C1_RoutedByTag ==
  [][ DecoderStep("Decoder.visit") =>
        LET i == Top(stack).de
            value == Pending[1]
            f == Top(stack')
            cb == last'.cb
            OverMap(d) == /\ cb = Some(Callback("visit_map", None))
                          /\ f.k = "Map" /\ f.de = i /\ f.iter = d
                          /\ f.len = Len(d) /\ f.value = None
        IN /\ Len(stack') = Len(stack) + 1
           /\ CASE value.tag = "FloatingPoint" ->
                     cb = Some(Callback("visit_f64", Some(value))) /\ f.k = "Scalar"
                [] value.tag = "String" ->
                     cb = Some(Callback("visit_string", Some(value))) /\ f.k = "Scalar"
                [] value.tag = "Boolean" ->
                     cb = Some(Callback("visit_bool", Some(value))) /\ f.k = "Scalar"
                [] value.tag = "I32" ->
                     cb = Some(Callback("visit_i32", Some(value))) /\ f.k = "Scalar"
                [] value.tag = "I64" ->
                     cb = Some(Callback("visit_i64", Some(value))) /\ f.k = "Scalar"
                [] value.tag = "Null" ->
                     cb = Some(Callback("visit_unit", None)) /\ f.k = "Scalar"
                [] value.tag = "Array" ->
                     /\ cb = Some(Callback("visit_seq", None))
                     /\ f.k = "Seq" /\ f.de = i /\ f.iter = value.v
                     /\ f.len = Len(value.v)
                [] value.tag = "Document" -> OverMap(value.v)
                [] OTHER -> OverMap(to_extended_document(value).v)
    ]_vars

\* an extended variant has just been handed to visit_map as its document
C1_Witness ==
  /\ last.op = "Decoder.visit"
  /\ last.arg = <<"visit">>
  /\ last.cb = Some(Callback("visit_map", None))
  /\ Top(stack).k = "Map"
  /\ Top(stack).iter = << <<"$oid", String("0a")>> >>

\* C2: visit_option on a pending Null invokes visit_none; on any other
\* pending value it invokes visit_some with the Decoder itself and leaves the
\* slot as it was, so the value is still pending for the reconstruct made
\* inside visit_some, and that reconstruct is what empties the slot.
C2_OptionKeepsPending ==
  [][ /\ DecoderStep("Decoder.visit_option") =>
          IF Pending = Some(Null)
          THEN last'.cb = Some(Callback("visit_none", None))
          ELSE /\ last'.cb = Some(Callback("visit_some", None))
               /\ stack' = Append(stack, SomeFrame(Top(stack).de))
               /\ decs' = decs
      /\ ( /\ DecoderStep("Decoder.visit")
           /\ stack[Len(stack) - 1].k = "Some"
           /\ last.op = "deserialize" ) =>
          /\ last'.cb # None
          /\ decs'[Top(stack).de] = None
    ]_vars

\* the reconstruct made inside visit_some has consumed the pending value
C2_Witness ==
  /\ Len(stack) >= 4
  /\ stack[Len(stack) - 2].k = "Some"
  /\ stack[Len(stack) - 1].k = "Deser"
  /\ last.op = "Decoder.visit"
  /\ last.cb # None
  /\ decs[stack[Len(stack) - 2].de] = None


\* the step is a visit_enum call that fails with e before any callback: the
\* error is what the Deserialize call gets back, no frame is pushed and no
\* VariantDecoder exists
FailsAtConstruction(e) ==
  /\ last'.in = Some(Err(e))
  /\ last'.cb = None
  /\ Len(stack') < Len(stack)
  /\ \A j \in 1..Len(stack') : stack'[j] = stack[j]

\* the claim C3 as first stated: ExpectedSingleKeyMap for an empty Document too
C3_AsStated ==
  [][ DecoderStep("Decoder.visit_enum") =>
        LET value == Pending[1] IN
          /\ value.tag # "Document" => FailsAtConstruction(ExpectedEnum)
          /\ (value.tag = "Document" /\ Len(value.v) # 1) =>
               FailsAtConstruction(ExpectedSingleKeyMap)
    ]_vars

\* C3: visit_enum on a pending value that is not a Document fails with
\* "expected an enum" (ExpectedEnum), on a Document with no entry with
\* "expected a variant name" (ExpectedVariantName) and on a Document with two
\* or more entries with "expected map" (ExpectedSingleKeyMap); each failure is
\* returned before EnumVisitor::visit is invoked and before a VariantDecoder
\* exists.
C3_EnumErrors ==
  [][ DecoderStep("Decoder.visit_enum") =>
        LET value == Pending[1] IN
          /\ value.tag # "Document" => FailsAtConstruction(ExpectedEnum)
          /\ (value.tag = "Document" /\ Len(value.v) = 0) =>
               FailsAtConstruction(ExpectedVariantName)
          /\ (value.tag = "Document" /\ Len(value.v) > 1) =>
               FailsAtConstruction(ExpectedSingleKeyMap)
    ]_vars

\* visit_enum has just refused the empty Document
C3_Witness ==
  /\ last.op = "Decoder.visit_enum"
  /\ last.in = Some(Err(ExpectedVariantName))
  /\ last.cb = None
  /\ stack = << RootFrame >>

\* the VariantDecoder holding the Visitor's attention, and its payload
AtVariant == status = "running" /\ Top(stack).k = "Variant"

\* the step hands the left-over cursor c2 a suspended method and, on top, a
\* Deserialize call on a new Decoder that holds x
ReadsFromNew(c2, x) ==
  /\ decs' = Append(decs, Some(x))
  /\ stack' = Pop(stack) \o << c2, KFrame(last'.op, TRUE), DeserFrame(Len(decs) + 1) >>

\* C4: for a one-entry Document {k: p}, visit_enum hands EnumVisitor::visit a
\* VariantDecoder whose variant is String(k), whatever the variant list, and
\* whose val is p; visit_variant decodes from String(k); visit_unit and
\* visit_newtype decode from p; visit_tuple dispatches a SeqDecoder over p
\* when p is an Array (len = its length; <SeqDecoder as Deserializer>::visit
\* gives visit_seq, or visit_unit when the Array is empty) and fails with
\* ExpectedTuple otherwise; visit_struct dispatches a MapDecoder over p when p
\* is a Document and fails with ExpectedStruct otherwise.
C4_VariantReadsEntry ==
  [][ /\ ( /\ DecoderStep("Decoder.visit_enum")
           /\ Pending[1].tag = "Document"
           /\ Len(Pending[1].v) = 1 ) =>
          LET kp == Pending[1].v[1] IN
            /\ last'.cb = Some(Callback("visit", None))
            /\ stack' = Append(stack, [k |-> "Variant", de |-> Top(stack).de,
                                       val |-> Some(kp[2]),
                                       variant |-> Some(String(kp[1]))])
      /\ (AtVariant /\ last'.op = "Variant.visit_variant" /\ Top(stack).variant # None) =>
          ReadsFromNew([Top(stack) EXCEPT !.variant = None], Top(stack).variant[1])
      /\ ( /\ AtVariant
           /\ last'.op \in {"Variant.visit_unit", "Variant.visit_newtype"}
           /\ Top(stack).val # None ) =>
          ReadsFromNew([Top(stack) EXCEPT !.val = None], Top(stack).val[1])
      /\ (AtVariant /\ last'.op = "Variant.visit_tuple" /\ Top(stack).val # None) =>
          LET p == Top(stack).val[1]
              f == Top(stack')
          IN IF p.tag = "Array"
             THEN /\ Len(stack') = Len(stack) + 2
                  /\ stack'[Len(stack) + 1] = KFrame("Variant.visit_tuple", FALSE)
                  /\ IF Len(p.v) = 0
                     THEN last'.cb = Some(Callback("visit_unit", None)) /\ f.k = "Scalar"
                     ELSE /\ last'.cb = Some(Callback("visit_seq", None))
                          /\ f.k = "Seq" /\ f.iter = p.v /\ f.len = Len(p.v)
                          /\ f.de = Top(stack).de
             ELSE /\ last'.res = Some(Err(ExpectedTuple))
                  /\ last'.cb = None
                  /\ Len(stack') = Len(stack)
      /\ (AtVariant /\ last'.op = "Variant.visit_struct" /\ Top(stack).val # None) =>
          LET p == Top(stack).val[1]
              f == Top(stack')
          IN IF p.tag = "Document"
             THEN /\ Len(stack') = Len(stack) + 2
                  /\ stack'[Len(stack) + 1] = KFrame("Variant.visit_struct", FALSE)
                  /\ last'.cb = Some(Callback("visit_map", None))
                  /\ f.k = "Map" /\ f.iter = p.v /\ f.len = Len(p.v)
                  /\ f.value = None /\ f.de = Top(stack).de
             ELSE /\ last'.res = Some(Err(ExpectedStruct))
                  /\ last'.cb = None
                  /\ Len(stack') = Len(stack)
    ]_vars

\* visit_tuple has just refused, and consumed, a payload that is not an Array
C4_Witness ==
  /\ last.op = "Variant.visit_tuple"
  /\ last.res = Some(Err(ExpectedTuple))
  /\ Top(stack).k = "Variant"
  /\ Top(stack).val = None
  /\ Top(stack).variant = Some(String("V"))

\* the visit_seq callback is running over an Array payload
C4_TupleDispatched ==
  /\ last.op = "Variant.visit_tuple"
  /\ last.cb = Some(Callback("visit_seq", None))
  /\ Top(stack).k = "Seq"
  /\ Top(stack).iter = << I64(2) >>

\* the SeqDecoder the Visitor is holding
AtSeq == status = "running" /\ Top(stack).k = "Seq"

\* C5: on a SeqDecoder built over an Array of length total, after calls
\* SeqVisitor::visit calls (0 <= calls <= total) end() returns Ok when
\* calls = total and LengthMismatch(total - calls) when calls < total, and
\* a visit call made after total calls returns None.
C5_EndCountsTheRest ==
  [][ /\ (AtSeq /\ last'.op = "Seq.end" /\ Top(stack).calls <= Top(stack).total) =>
          LET c == Top(stack) IN
            /\ c.calls = c.total => last'.res = Some(Ok("unit"))
            /\ c.calls < c.total =>
                 last'.res = Some(Err(LengthMismatch(c.total - c.calls)))
      /\ (AtSeq /\ last'.op = "Seq.visit") =>
          LET c == Top(stack) IN
            /\ c.calls >= c.total => last'.res = Some(Ok("None"))
            /\ c.calls < c.total =>
                 /\ last'.res = None
                 /\ Top(stack') = DeserFrame(c.de)
                 /\ decs'[c.de] = Some(c.iter[1])
    ]_vars

\* end() has just reported one element left after one of two was asked for
C5_Witness ==
  /\ last.op = "Seq.end"
  /\ last.res = Some(Err(LengthMismatch(1)))
  /\ Top(stack).k = "Seq"
  /\ Top(stack).total = 2
  /\ Top(stack).calls = 1

\* the third visit call on a SeqDecoder over two elements has returned None
C5_PastTheEnd ==
  /\ last.op = "Seq.visit"
  /\ last.res = Some(Ok("None"))
  /\ Top(stack).k = "Seq"
  /\ Top(stack).total = 2
  /\ Top(stack).calls = 3


\* the UnitDecoder a pending Deserialize call is about to make its request on
AtUnitDecoder == status = "running" /\ Top(stack).k = "Deser" /\ Top(stack).de = UnitDe

C6_MissingFieldOk ==
  /\ last.ret = "Map.missing_field"
  /\ last.res = Some(Ok("value"))

\* C7: MapDecoder::visit_key turns a key decode that failed with UnknownField
\* into Ok(None) and returns every other key-decode error as it is;
\* visit_value, SeqDecoder::visit and the VariantDecoder methods return every
\* error of the nested decode, UnknownField included, as it is.
C7_OnlyKeySwallows ==
  (last.in # None /\ ~last.in[1].ok) =>
     /\ last.ret = "Map.visit_key" =>
          IF last.in[1].err.kind = "UnknownField"
          THEN last.res = Some(Ok("None"))
          ELSE last.res = last.in
     /\ last.ret \in { "Map.visit_value", "Seq.visit", "Variant.visit_variant",
                       "Variant.visit_unit", "Variant.visit_newtype",
                       "Variant.visit_tuple", "Variant.visit_struct" } =>
          last.res = last.in

\* visit_key has just reported None for a key that failed with UnknownField
C7_Witness ==
  /\ last.ret = "Map.visit_key"
  /\ last.in = Some(Err(UnknownField("f")))
  /\ last.res = Some(Ok("None"))

\* visit_value has just returned an UnknownField error
C7_ValueKeepsUnknownField ==
  /\ last.ret = "Map.visit_value"
  /\ last.res = Some(Err(UnknownField("f")))

\* visit_key has just returned the ExpectedEnum error of the key's decode
C7_KeyKeepsOtherError ==
  /\ last.ret = "Map.visit_key"
  /\ last.res = Some(Err(ExpectedEnum))

\* C8: in the state where visit_key has just reported None on the MapDecoder
\* on top of the stack, a visit_key or visit_value call on it hands no key and
\* no value to the Decoder.
C8_NothingAfterNone ==
  [][ ( /\ last.ret = "Map.visit_key"
        /\ last.res = Some(Ok("None"))
        /\ last'.op \in {"Map.visit_key", "Map.visit_value"} ) =>
          /\ decs' = decs
          /\ Top(stack').k # "Deser"
    ]_vars

\* C9: on a Decoder whose slot is empty, visit (and every request forwarded
\* to it), visit_option and visit_enum fail with EndOfStream, invoke no
\* callback and push no frame, and the slot stays empty.
C9_EmptySlot ==
  [][ ( /\ AtDecoder
        /\ Pending = None
        /\ last'.op \in {"Decoder.visit", "Decoder.visit_option", "Decoder.visit_enum"} ) =>
          /\ last'.in = Some(Err(EndOfStream))
          /\ last'.cb = None
          /\ Len(stack') < Len(stack)
          /\ \A j \in 1..Len(stack') : stack'[j] = stack[j]
          /\ Top(stack).de <= Len(decs') => decs'[Top(stack).de] = None
    ]_vars

\* visit_enum has just failed on the slot a first request had emptied
C9_Witness ==
  /\ last.op = "Decoder.visit_enum"
  /\ last.in = Some(Err(EndOfStream))
  /\ last.cb = None
  /\ decs = << None >>

\* the claim C10 as first stated: at Decoder::visit the empty Array goes to
\* visit_unit and every other Array to visit_seq
C10_AsStated ==
  [][ (DecoderStep("Decoder.visit") /\ Pending[1].tag = "Array") =>
        IF Len(Pending[1].v) = 0
        THEN last'.cb = Some(Callback("visit_unit", None))
        ELSE last'.cb = Some(Callback("visit_seq", None))
    ]_vars

\* C10: Decoder::visit gives every pending Array, the empty one included,
\* to visit_seq with a SeqDecoder; the empty Array goes to visit_unit only
\* where the SeqDecoder itself is the Deserializer, which is in
\* VariantDecoder::visit_tuple, and there an Array of length >= 1 goes to
\* visit_seq.
C10_UnitOnlyInTuple ==
  [][ /\ (DecoderStep("Decoder.visit") /\ Pending[1].tag = "Array") =>
          /\ last'.cb = Some(Callback("visit_seq", None))
          /\ Top(stack').k = "Seq"
          /\ Top(stack').len = Len(Pending[1].v)
      /\ ( /\ AtVariant
           /\ last'.op = "Variant.visit_tuple"
           /\ Top(stack).val # None
           /\ Top(stack).val[1].tag = "Array" ) =>
          IF Len(Top(stack).val[1].v) = 0
          THEN last'.cb = Some(Callback("visit_unit", None)) /\ Top(stack').k = "Scalar"
          ELSE last'.cb = Some(Callback("visit_seq", None)) /\ Top(stack').k = "Seq"
    ]_vars

\* Decoder::visit has just handed the empty Array to visit_seq
C10_Witness ==
  /\ last.op = "Decoder.visit"
  /\ last.cb = Some(Callback("visit_seq", None))
  /\ Top(stack).k = "Seq"
  /\ Top(stack).total = 0

\* visit_tuple has just handed the empty Array to visit_unit
C10_TupleUnit ==
  /\ last.op = "Variant.visit_tuple"
  /\ last.cb = Some(Callback("visit_unit", None))
  /\ Top(stack) = ScalarFrame("visit_unit")


\* the step makes the cursor on top of the stack put a value into the slot
\* of its Decoder
PutsIntoSlot ==
  /\ status = "running"
  /\ Top(stack).k \in {"Seq", "Map"}
  /\ last'.op \in {"Seq.visit", "Map.visit_key", "Map.visit_value"}
  /\ Top(stack').k = "Deser"

\* C11: a SeqDecoder or MapDecoder of which a method has returned an error
\* yields no element, key or value afterwards.
C11_NoValueAfterError ==
  ( /\ status = "running"
    /\ last.ret \in {"Seq.visit", "Map.visit_key", "Map.visit_value"}
    /\ last.res # None
    /\ last.res[1].ok
    /\ last.res # Some(Ok("None")) ) =>
      Len(stack) \notin last.failed

\* C12: whenever a SeqDecoder or MapDecoder puts the next element, key or
\* value into the Decoder's slot, the slot is empty.
C12_PutsIntoEmptySlot ==
  [][ PutsIntoSlot => decs[Top(stack).de] = None ]_vars

\* C13: when a visit, visit_option or visit_enum request that was answered
\* by a callback without a cursor returns a value, the slot of its Decoder is
\* empty.
C13_RequestEmptiesSlot ==
  [][ ( /\ status = "running"
        /\ Top(stack).k = "Scalar"
        /\ stack[Len(stack) - 1].k = "Deser"
        /\ stack[Len(stack) - 1].de # UnitDe
        /\ last'.op = "return"
        /\ last'.in[1].ok ) =>
          LET i == stack[Len(stack) - 1].de IN
            i <= Len(decs') => decs'[i] = None
    ]_vars

\* C14: no call of a VariantDecoder method aborts the program.
C14_VariantNeverAborts ==
  ~( /\ status = "panic"
     /\ last.op \in { "Variant.visit_variant", "Variant.visit_unit",
                      "Variant.visit_newtype", "Variant.visit_tuple",
                      "Variant.visit_struct" } )


\* C15: in a SeqDecoder and in a MapDecoder len is the number of elements
\* (entries) left in the iterator and is never negative; SeqDecoder::visit and
\* MapDecoder::visit_key take one off it when they pop an element or a key, no
\* other step changes it, and size_hint returns (len, Some(len)).
C15_LenCountsTheRest ==
  [][ status = "running" =>
        /\ \A j \in 1..Len(stack') :
             stack'[j].k \in {"Seq", "Map"} =>
               stack'[j].len = Len(stack'[j].iter) /\ stack'[j].len >= 0
        /\ \A j \in 1..Len(stack) :
             (j <= Len(stack') /\ stack[j].k \in {"Seq", "Map"}) =>
               /\ stack'[j].k = stack[j].k
               /\ stack'[j].len =
                    IF /\ j = Len(stack)
                       /\ last'.op \in {"Seq.visit", "Map.visit_key"}
                       /\ stack[j].iter # <<>>
                    THEN stack[j].len - 1
                    ELSE stack[j].len
        /\ last'.op \in {"Seq.size_hint", "Map.size_hint"} =>
             LET n == Len(Top(stack).iter) IN
               last'.res = Some([ok |-> TRUE, hint |-> <<n, Some(n)>>])
    ]_vars

\* size_hint reports 1 on a MapDecoder over three entries, two of them popped
C15_Witness ==
  /\ status = "running"
  /\ Top(stack).k = "Map"
  /\ Len(Top(stack).src) = 3
  /\ Len(Top(stack).iter) = 1
  /\ last.op = "Map.size_hint"
  /\ last.res = Some([ok |-> TRUE, hint |-> <<1, Some(1)>>])


\* C16: whenever a MapDecoder is at rest (its Visitor is about to call it),
\* its value buffer is non-empty exactly when its latest visit_key returned
\* Some(key) and visit_value has not been called since.
C16_BufferedIffKeyYielded ==
  (status = "running" /\ Top(stack).k = "Map") =>
    (Top(stack).value # None <=> Len(stack) \in last.keyed)


\* the position in src of the entry at the front of the iterator of the
\* MapDecoder c
Front(c) == Len(c.src) - Len(c.iter) + 1

\* C17: a MapDecoder walks the entries of its Document in insertion order:
\* its iterator is always the rest of the Document behind the entries popped,
\* visit_key feeds the key decoder the String of the entry at the front and
\* buffers that entry's value, visit_value after a yielded key feeds the
\* value of that same entry, and visit_key past the last entry returns None.
C17_EntriesInOrder ==
  [][ (status = "running" /\ Top(stack).k = "Map") =>
        LET c == Top(stack)
            p == Front(c)
            c2 == stack'[Len(stack)]
        IN /\ c.iter = SubSeq(c.src, p, Len(c.src))
           /\ (last'.op = "Map.visit_key" /\ p <= Len(c.src)) =>
                /\ decs'[c.de] = Some(String(c.src[p][1]))
                /\ c2.value = Some(c.src[p][2])
                /\ c2.iter = SubSeq(c.src, p + 1, Len(c.src))
                /\ c2.src = c.src
           /\ (last'.op = "Map.visit_key" /\ p > Len(c.src)) =>
                /\ last'.res = Some(Ok("None"))
                /\ stack' = stack
           /\ (last'.op = "Map.visit_value" /\ Len(stack) \in last.keyed) =>
                /\ status' = "running"
                /\ decs'[c.de] = Some(c.src[p - 1][2])
                /\ c2.iter = c.iter
    ]_vars

\* the value of the third entry of a Document of three is fed to the decode
\* of the third visit_value
C17_Witness ==
  /\ status = "running"
  /\ Len(stack) >= 3
  /\ Top(stack).k = "Deser"
  /\ stack[Len(stack) - 1] = KFrame("Map.visit_value", FALSE)
  /\ LET c == stack[Len(stack) - 2] IN
       /\ c.k = "Map"
       /\ Len(c.src) = 3
       /\ c.iter = <<>>
       /\ decs[c.de] = Some(c.src[3][2])


\* the root Deserialize call has returned
Finished == stack = << RootFrame >> /\ last.res # None

RECURSIVE Plain(_)
Plain(value) ==
  CASE value.tag \in {"Null", "Boolean", "I32", "I64", "String"} -> TRUE
    [] value.tag = "Array" -> \A i \in 1..Len(value.v) : Plain(value.v[i])
    [] value.tag = "Document" ->
         \A i \in 1..Len(value.v) : value.v[i][1] # "$oid" /\ Plain(value.v[i][2])
    [] OTHER -> FALSE

\* C19: Bson::deserialize on a Decoder over such a value returns that value.
C19_RoundTrip ==
  ( /\ last.op = "Bson.deserialize"
    /\ last.arg # None
    /\ Plain(last.arg[1]) ) =>
      last.res = Some(Ok(last.arg[1]))

\* the Documents of the value, at every depth, have their keys in ascending
\* order
RECURSIVE Ascending(_)
Ascending(value) ==
  CASE value.tag = "Array" -> \A i \in 1..Len(value.v) : Ascending(value.v[i])
    [] value.tag = "Document" ->
         /\ value.v = BTreeMap_collect(value.v)
         /\ \A i \in 1..Len(value.v) : Ascending(value.v[i][2])
    [] OTHER -> TRUE

\* what does hold of the round trip: Arrays keep their order, and a value
\* whose Documents are in ascending key order comes back as it was
C19_AscendingRoundTrip ==
  ( /\ last.op = "Bson.deserialize"
    /\ last.arg # None
    /\ Plain(last.arg[1])
    /\ Ascending(last.arg[1]) ) =>
      last.res = Some(Ok(last.arg[1]))

\* C20: ObjectId::deserialize and OrderedDocument::deserialize do not abort
\* the program.
C20_NeverAborts ==
  ~( /\ status = "panic"
     /\ last.op \in {"ObjectId.deserialize", "OrderedDocument.deserialize"} )

\* what does hold: they return the Document (the ObjectId) that the pending
\* value decodes to, and EndOfStream from an empty slot
C20_ValueWhenMatching ==
  (status = "running" /\ last.op = "OrderedDocument.deserialize" /\ last.arg # None) =>
     /\ last.arg[1].tag = "Document"
     /\ last.res[1].ok
     /\ { last.res[1].val[i][1] : i \in 1..Len(last.res[1].val) } =
          { last.arg[1].v[i][1] : i \in 1..Len(last.arg[1].v) }

====
